---------------------------- MODULE Spec2Model ----------------------------
(***************************************************************************)
(* A model of src/paip/logic.py: the clause Database, the term classes     *)
(* Atom / Var / Relation with their unify methods, Var.lookup, the         *)
(* renaming of clauses, and the prover prove / prove_all / prolog_prove.   *)
(*                                                                         *)
(* The source is Python 2 (print statements, raw_input, reduce).  Three    *)
(* points of the Python 2 data model decide what the code does and are     *)
(* modelled as the language defines them:                                  *)
(*   - Atom, Var and Relation define __eq__ but neither __ne__ nor         *)
(*     __hash__.  "a == b" is the class's __eq__ (by value / by name);     *)
(*     "a != b" falls back to the default comparison, which is by object   *)
(*     identity; hash(a) is the default, identity based hash, so a dict    *)
(*     or a set finds a key only by the very same object.                  *)
(*   - "x in aList" compares with ==.                                      *)
(*   - an empty dict is false in a boolean context ("not {}" is True),     *)
(*     while "{} == False" is False.                                       *)
(* A term object is therefore a record that carries, beside its value, an  *)
(* id: two objects are the same object iff the records are equal, and      *)
(* they are == iff they agree up to ids.                                   *)
(***************************************************************************)
EXTENDS Integers, Sequences, FiniteSets, TLC

VARIABLES
  clauses,   \* Database.clauses: dict  predicate name -> list of clauses | primitive
  counter,   \* Var.counter, the class attribute behind get_unused_var
  nid,       \* next object id for the objects the program creates (Var, Relation)
  heap,      \* the dict objects (binding environments); a reference is an index
  stack,     \* the call stack, innermost frame last
  ret,       \* the value the last finished call returned (0 is False, else a reference)
  fault,     \* the uncaught exception that ended the run, "" if none
  out,       \* what was printed, a sequence of lines
  inp,       \* what raw_input will still deliver: a sequence of answers
  call,      \* the API call this run was started with (its arguments), never changed
  hist,      \* the Database operations done so far, in order (Database runs)
  looked     \* the term the last finished lookup returned

vars == <<clauses, counter, nid, heap, stack, ret, fault, out, inp, call, hist, looked>>

----------------------------------------------------------------------------
(* Terms.  Atom(atom), Var(var), Relation(pred, args); None is Python's None. *)

Atom(a, i) == [k |-> "Atom", name |-> a, args |-> <<>>, id |-> i]

Var(v, i) == [k |-> "Var", name |-> v, args |-> <<>>, id |-> i]

Relation(p, as, i) == [k |-> "Relation", name |-> p, args |-> as, id |-> i]

None == [k |-> "None", name |-> "", args |-> <<>>, id |-> 0]

\* The truth value of a term in "if binding": None is false, every object of
\* these classes is true (they define neither __nonzero__ nor __len__).
Truthy(t) == t.k # "None"

RECURSIVE Eq(_, _)
\* a == b: Atom.__eq__, Var.__eq__, Relation.__eq__.
Eq(a, b) ==
  /\ a.k = b.k
  /\ a.name = b.name
  /\ Len(a.args) = Len(b.args)
  /\ \A i \in 1..Len(a.args) : Eq(a.args[i], b.args[i])

\* a != b: no __ne__ is defined, so Python 2 compares the objects' identities.
Ne(a, b) == a # b

\* x in aList
InList(x, l) == \E i \in 1..Len(l) : Eq(l[i], x)

----------------------------------------------------------------------------
(* Dict objects on the heap.  A dict of bindings is a function from Var    *)
(* objects to terms; its keys are found by identity (the default hash).    *)

EmptyDict == [x \in {} |-> None]

\* d.get(key)
Get(d, key) == IF key \in DOMAIN d THEN d[key] ELSE None

\* d[key] = val
SetItem(d, key, val) == [x \in DOMAIN d \cup {key} |-> IF x = key THEN val ELSE d[x]]

\* The result of a call that works on the heap h: r is 0 for False, else a reference.
Res(h, r) == [h |-> h, r |-> r]

\* A variant of dict(bindings) that hands back the dict it was given instead
\* of a copy.
SameDict(h, r) == Res(h, r)

\* dict(bindings): a new dict object with the entries of h[r].
Dict(h, r) == Res(Append(h, h[r]), Len(h) + 1)

\* bindings[key] = val on the dict c.r of heap c.h
Bind(c, key, val) == Res([c.h EXCEPT ![c.r] = SetItem(@, key, val)], c.r)

\* "not bindings": False and the empty dict are both false.
Falsy(h, r) == r = 0 \/ DOMAIN h[r] = {}

----------------------------------------------------------------------------
(* Var.lookup *)

\* A variant of the loop condition without the test on encountered.
lookup_cond_unguarded(binding, encountered, b) ==
  /\ binding.k = "Var"
  /\ binding \in DOMAIN b

\* A variant of the loop condition that looks for binding itself, not for
\* what binding is bound to, in encountered.
lookup_cond_binding_seen(binding, encountered, b) ==
  /\ binding.k = "Var"
  /\ binding \in DOMAIN b
  /\ ~InList(binding, encountered)

\* The condition of lookup's while loop.
lookup_cond(binding, encountered, b) ==
  /\ binding.k = "Var"
  /\ binding \in DOMAIN b
  /\ ~InList(b[binding], encountered)

RECURSIVE lookup_loop(_, _, _)
lookup_loop(binding, encountered, b) ==
  IF lookup_cond(binding, encountered, b)
  THEN lookup_loop(b[binding], Append(encountered, b[binding]), b)
  ELSE binding

Var_lookup(self, b) == lookup_loop(Get(b, self), <<self, Get(b, self)>>, b)

----------------------------------------------------------------------------
(* unify *)

Atom_unify_Var(self, other, r, h) ==
  LET c == Dict(h, r)
      binding == Var_lookup(other, c.h[c.r])
  IN  IF Truthy(binding) /\ Ne(binding, self) THEN Res(c.h, 0)
      ELSE IF Truthy(binding) /\ Eq(binding, self) THEN c
      ELSE Bind(c, other, self)

Atom_unify(self, other, r, h) ==
  IF other.k = "Atom"
  THEN IF self.name = other.name THEN Dict(h, r) ELSE Res(h, 0)
  ELSE IF other.k = "Var" THEN Atom_unify_Var(self, other, r, h)
  ELSE Res(h, 0)

\* A variant of the Var branch of Var.unify that does bindings[self] = other
\* whichever of the two is the bound one.
Var_unify_Var_self_first(self, other, r, h) ==
  LET c == Dict(h, r)
      self_bind == Var_lookup(self, c.h[c.r])
      other_bind == Var_lookup(other, c.h[c.r])
  IN  IF Eq(self, other) THEN c
      ELSE IF ~Truthy(self_bind) /\ ~Truthy(other_bind)
      THEN Bind(Bind(c, self, other), other, self)
      ELSE IF ~Truthy(self_bind) \/ ~Truthy(other_bind) THEN Bind(c, self, other)
      ELSE IF \/ Eq(self_bind, other_bind)
              \/ Eq(self_bind, other)
              \/ Eq(self, other_bind)
      THEN c
      ELSE Res(c.h, 0)

Var_unify_Var(self, other, r, h) ==
  LET c == Dict(h, r)
      self_bind == Var_lookup(self, c.h[c.r])
      other_bind == Var_lookup(other, c.h[c.r])
  IN  IF Eq(self, other) THEN c
      ELSE IF ~Truthy(self_bind) /\ ~Truthy(other_bind)
      THEN Bind(Bind(c, self, other), other, self)
      ELSE IF Truthy(self_bind) /\ ~Truthy(other_bind) THEN Bind(c, other, self)
      ELSE IF ~Truthy(self_bind) /\ Truthy(other_bind) THEN Bind(c, self, other)
      ELSE IF \/ Eq(self_bind, other_bind)
              \/ Eq(self_bind, other)
              \/ Eq(self, other_bind)
      THEN c
      ELSE Res(c.h, 0)

Var_unify_Relation(self, other, r, h) ==
  LET c == Dict(h, r)
      bound == Var_lookup(self, c.h[c.r])
  IN  IF Truthy(bound) /\ Ne(bound, other) THEN Res(c.h, 0)
      ELSE IF Truthy(bound) /\ Eq(bound, other) THEN c
      ELSE Bind(c, self, other)

Var_unify(self, other, r, h) ==
  IF other.k = "Atom" THEN Atom_unify(other, self, r, h)
  ELSE IF other.k = "Var" THEN Var_unify_Var(self, other, r, h)
  ELSE IF other.k = "Relation" THEN Var_unify_Relation(self, other, r, h)
  ELSE Res(h, 0)

RECURSIVE Relation_unify(_, _, _, _)
RECURSIVE unify_args(_, _, _, _)

\* term.unify(other, bindings): the method of term's class.
unify(term, other, r, h) ==
  IF term.k = "Atom" THEN Atom_unify(term, other, r, h)
  ELSE IF term.k = "Var" THEN Var_unify(term, other, r, h)
  ELSE Relation_unify(term, other, r, h)

\* The for loop of Relation.unify from argument i on; c is the loop's bindings.
unify_args(self, other, i, c) ==
  IF i > Len(self.args) THEN c
  ELSE LET u == unify(self.args[i], other.args[i], c.r, c.h)
       IN  IF u.r = 0 THEN Res(u.h, 0)
           ELSE unify_args(self, other, i + 1, u)

\* A variant of Relation.unify without the comparison of the predicates.
Relation_unify_any_pred(self, other, r, h) ==
  IF other.k = "Relation"
  THEN IF Len(self.args) # Len(other.args) THEN Res(h, 0)
       ELSE unify_args(self, other, 1, Dict(h, r))
  ELSE IF other.k = "Var" THEN Var_unify(other, self, r, h)
  ELSE Res(h, 0)

Relation_unify(self, other, r, h) ==
  IF other.k = "Relation"
  THEN IF self.name # other.name THEN Res(h, 0)
       ELSE IF Len(self.args) # Len(other.args) THEN Res(h, 0)
       ELSE unify_args(self, other, 1, Dict(h, r))
  ELSE IF other.k = "Var" THEN Var_unify(other, self, r, h)
  ELSE Res(h, 0)

----------------------------------------------------------------------------
(* Renaming: Var.get_unused_var, get_vars, rename_vars, recursive_rename *)

Digit == <<"0", "1", "2", "3", "4", "5", "6", "7", "8", "9">>

RECURSIVE Dec(_)
\* '%d' % n for n >= 0
Dec(n) == IF n < 10 THEN Digit[n + 1] ELSE Dec(n \div 10) \o Digit[(n % 10) + 1]

\* Var.get_unused_var() when Var.counter is n: a new Var object named 'var%d' % n.
\* (The caller adds 1 to the counter and takes the object's id from nid.)
get_unused_var(n, i) == Var("var" \o Dec(n), i)

RECURSIVE get_vars(_)
RECURSIVE get_vars_from(_, _)

\* Atom.get_vars, Var.get_vars, Relation.get_vars: a list, repetitions kept.
get_vars(t) ==
  IF t.k = "Var" THEN <<t>>
  ELSE IF t.k = "Relation" THEN get_vars_from(t.args, 1)
  ELSE <<>>

\* The concatenation of get_vars over the terms ts[i], ts[i+1], ...
get_vars_from(ts, i) ==
  IF i > Len(ts) THEN <<>> ELSE get_vars(ts[i]) \o get_vars_from(ts, i + 1)

\* Clause.get_vars: list(set(vars)).  The set keeps one entry per Var OBJECT
\* (identity hash); the order of the list is the set's iteration order, which
\* depends on the objects' addresses: any order can come out.
Clause_get_vars(c) ==
  LET l == get_vars(c.head) \o get_vars_from(c.body, 1)
  IN  {l[i] : i \in 1..Len(l)}

\* The orders list(set(vars)) may have: position of each Var object, from 1.
Orders(S) ==
  {f \in [S -> 1..Cardinality(S)] : \A x, y \in S : x # y => f[x] # f[y]}

\* The dict comprehension of recursive_rename: the Var object at position p
\* gets the p-th unused variable.
renames(S, order, n, i) ==
  [v \in S |-> get_unused_var(n + order[v] - 1, i + order[v] - 1)]

RECURSIVE rename_vars(_, _, _)
RECURSIVE rename_list(_, _, _, _)

\* Atom.rename_vars, Var.rename_vars, Relation.rename_vars.  i is the id the
\* next new Relation object gets; the result is the term and the next free id.
rename_vars(t, replacements, i) ==
  IF t.k = "Var"
  THEN [t |-> IF t \in DOMAIN replacements THEN replacements[t] ELSE t, i |-> i]
  ELSE IF t.k = "Relation"
  THEN LET rs == rename_list(t.args, 1, replacements, i + 1)
       IN  [t |-> Relation(t.name, rs.ts, i), i |-> rs.i]
  ELSE [t |-> t, i |-> i]

\* rename_vars over the terms ts[j], ts[j+1], ..., left to right.
rename_list(ts, j, replacements, i) ==
  IF j > Len(ts) THEN [ts |-> <<>>, i |-> i]
  ELSE LET r1 == rename_vars(ts[j], replacements, i)
           rest == rename_list(ts, j + 1, replacements, r1.i)
       IN  [ts |-> <<r1.t>> \o rest.ts, i |-> rest.i]

Clause(head, body) == [head |-> head, body |-> body]

\* Clause.rename_vars
Clause_rename_vars(c, replacements, i) ==
  LET h == rename_vars(c.head, replacements, i)
      b == rename_list(c.body, 1, replacements, h.i)
  IN  [c |-> Clause(h.t, b.ts), i |-> b.i]

\* Clause.recursive_rename with the variables listed in the given order:
\* the renamed clause, the new Var.counter and the next free object id.
recursive_rename(c, order, n, i) ==
  LET S == Clause_get_vars(c)
      r == Clause_rename_vars(c, renames(S, order, n, i), i + Cardinality(S))
  IN  [c |-> r.c, counter |-> n + Cardinality(S), nid |-> r.i]

----------------------------------------------------------------------------
(* Database.  An entry of self.clauses is a list of clauses (prim = "") or *)
(* a primitive, a function object named by prim.                           *)

ClauseList(l) == [prim |-> "", list |-> l]

Primitive(fn) == [prim |-> fn, list |-> <<>>]

\* d[key] = val for the clauses dict (keys are strings)
Put(d, key, val) == [x \in DOMAIN d \cup {key} |-> IF x = key THEN val ELSE d[x]]

\* self.clauses.setdefault(pred, []): the dict afterwards
setdefault(d, pred) == IF pred \in DOMAIN d THEN d ELSE Put(d, pred, ClauseList(<<>>))

\* Database.store raises AttributeError when the name holds a primitive:
\* setdefault returns the function object, which has no append.
store_raises(d, clause) ==
  clause.head.name \in DOMAIN d /\ d[clause.head.name].prim # ""

\* A variant of Database.store that puts the clause in front of the list.
Database_store_in_front(d, clause) ==
  LET pred == clause.head.name
      e == setdefault(d, pred)
  IN  Put(e, pred, ClauseList(<<clause>> \o e[pred].list))

\* Database.store: self.clauses after a store that does not raise
Database_store(d, clause) ==
  LET pred == clause.head.name
      e == setdefault(d, pred)
  IN  Put(e, pred, ClauseList(Append(e[pred].list, clause)))

\* Database.define_primitive
Database_define_primitive(d, name, fn) == Put(d, name, Primitive(fn))

\* A variant of Database.query that reads with self.clauses.get(pred): a name
\* that is no key yields None (an entry that is no list) and no key is added.
Database_query_get(d, pred) ==
  [entry |-> IF pred \in DOMAIN d THEN d[pred] ELSE Primitive("None"), clauses |-> d]

\* Database.query: what it returns, and self.clauses afterwards
Database_query(d, pred) == [entry |-> setdefault(d, pred)[pred], clauses |-> setdefault(d, pred)]

RECURSIVE store_all(_, _, _)
store_all(d, cs, i) ==
  IF i > Len(cs) THEN d ELSE store_all(Database_store(d, cs[i]), cs, i + 1)

\* Database.__init__(facts, rules)
Database_init(facts, rules) == store_all([x \in {} |-> ClauseList(<<>>)], facts \o rules, 1)

\* "not query": an empty list is false, a function object is true.
QueryFalsy(e) == e.prim = "" /\ e.list = <<>>

\* How many parameters each procedure a Database may hold takes: display_bindings
\* as the source defines it; prim_true and prim_false are host primitives written
\* to the calling convention of prove (args, bindings, db).
Arity(fn) == IF fn = "display_bindings" THEN 4 ELSE 3

----------------------------------------------------------------------------
(* The call stack.  A frame holds a call's parameters and locals:          *)
(*   fn, pc      the function and the place in it                          *)
(*   goals, i    prove_all / prolog_prove / display_bindings: the goal     *)
(*               list and the index of the for loop                        *)
(*   goal        prove: the goal; lookup: self; unify: self                *)
(*   other       unify: other; display_bindings: the Relation of its vars  *)
(*   b0          the parameter bindings as the caller passed it            *)
(*   bindings    the local variable bindings                               *)
(*   query, ci   prove: the list db.query returned, the candidate's index  *)
(*   clause, renamed   prove: the candidate clause and its renamed copy    *)
(*   binding, encountered   lookup: its locals                             *)
(*   vars        display_bindings: its parameter vars                      *)

NoClause == Clause(None, <<>>)

Frame0 ==
  [fn |-> "", pc |-> "", goals |-> <<>>, i |-> 0, goal |-> None, other |-> None,
   b0 |-> 0, bindings |-> 0, query |-> <<>>, ci |-> 0, renamed |-> NoClause,
   clause |-> NoClause, encountered |-> <<>>, binding |-> None, vars |-> <<>>]

prove_all_frame(goals, b) ==
  [Frame0 EXCEPT !.fn = "prove_all", !.pc = "enter", !.goals = goals, !.b0 = b, !.bindings = b]

prove_frame(goal, b) ==
  [Frame0 EXCEPT !.fn = "prove", !.pc = "enter", !.goal = goal, !.b0 = b, !.bindings = b]

Running == stack # <<>>

Top == stack[Len(stack)]

Popped == SubSeq(stack, 1, Len(stack) - 1)

SetTop(f) == [stack EXCEPT ![Len(stack)] = f]

At(fn, pc) == Running /\ Top.fn = fn /\ Top.pc = pc

\* return v
Return(v) == stack' = Popped /\ ret' = v

\* An exception nobody catches: every frame is left.
Raise(e) == stack' = <<>> /\ fault' = e

\* The deepest call stack the model follows.
MaxStack == 6

----------------------------------------------------------------------------
(* prove_all(goals, bindings, db) *)

\* bindings = dict(bindings)
prove_all_enter ==
  /\ At("prove_all", "enter")
  /\ LET c == Dict(heap, Top.b0)
     IN  /\ heap' = c.h
         /\ stack' = SetTop([Top EXCEPT !.bindings = c.r, !.i = 1, !.pc = "loop"])
  /\ UNCHANGED <<clauses, counter, nid, ret, fault, out, inp, call, hist, looked>>

\* for goal in goals: bindings = prove(goal, bindings, db) -- the call
prove_all_call ==
  /\ At("prove_all", "loop")
  /\ Top.i <= Len(Top.goals)
  /\ Len(stack) < MaxStack
  /\ stack' = Append(SetTop([Top EXCEPT !.pc = "ret"]),
                     prove_frame(Top.goals[Top.i], Top.bindings))
  /\ UNCHANGED <<clauses, counter, nid, heap, ret, fault, out, inp, call, hist, looked>>

\* ... if not bindings: return False -- after prove has returned
prove_all_ret ==
  /\ At("prove_all", "ret")
  /\ IF Falsy(heap, ret)
     THEN Return(0)
     ELSE /\ stack' = SetTop([Top EXCEPT !.bindings = ret, !.i = @ + 1, !.pc = "loop"])
          /\ ret' = ret
  /\ UNCHANGED <<clauses, counter, nid, heap, fault, out, inp, call, hist, looked>>

\* return bindings -- the goals are exhausted
prove_all_done ==
  /\ At("prove_all", "loop")
  /\ Top.i > Len(Top.goals)
  /\ Return(Top.bindings)
  /\ UNCHANGED <<clauses, counter, nid, heap, fault, out, inp, call, hist, looked>>

----------------------------------------------------------------------------
(* prove(goal, bindings, db) *)

\* query = db.query(goal.pred); if not query: return False
prove_no_clauses ==
  /\ At("prove", "enter")
  /\ LET q == Database_query(clauses, Top.goal.name)
     IN  /\ QueryFalsy(q.entry)
         /\ clauses' = q.clauses
         /\ Return(0)
  /\ UNCHANGED <<counter, nid, heap, fault, out, inp, call, hist, looked>>

\* if not isinstance(query, list): return query(goal.args, bindings, db)
\* Three arguments are passed.  A procedure that takes another number of
\* parameters raises TypeError at the call; prim_true returns the bindings it
\* was given and prim_false returns False.
prove_primitive ==
  /\ At("prove", "enter")
  /\ LET q == Database_query(clauses, Top.goal.name)
     IN  /\ q.entry.prim # ""
         /\ clauses' = q.clauses
         /\ IF Arity(q.entry.prim) # 3
            THEN Raise("TypeError") /\ ret' = ret
            ELSE Return(IF q.entry.prim = "prim_true" THEN Top.bindings ELSE 0) /\ fault' = fault
  /\ UNCHANGED <<counter, nid, heap, out, inp, call, hist, looked>>

\* the query is a non-empty list of clauses: enter the for loop
prove_clauses ==
  /\ At("prove", "enter")
  /\ LET q == Database_query(clauses, Top.goal.name)
     IN  /\ q.entry.prim = "" /\ q.entry.list # <<>>
         /\ clauses' = q.clauses
         /\ stack' = SetTop([Top EXCEPT !.query = q.entry.list, !.ci = 1, !.pc = "loop"])
  /\ UNCHANGED <<counter, nid, heap, ret, fault, out, inp, call, hist, looked>>

\* One pass of "for clause in query" up to the continue, the call of
\* prove_all on the body, or the return.
prove_candidate ==
  /\ At("prove", "loop")
  /\ Top.ci <= Len(Top.query)
  /\ \E order \in Orders(Clause_get_vars(Top.query[Top.ci])) :
       LET rn == recursive_rename(Top.query[Top.ci], order, counter, nid)
           renamed == rn.c
           u == unify(Top.goal, renamed.head, Top.bindings, heap)
       IN  /\ counter' = rn.counter
           /\ nid' = rn.nid
           /\ heap' = u.h
           /\ IF Falsy(u.h, u.r)
              THEN \* if not unified: continue
                   /\ stack' = SetTop([Top EXCEPT !.clause = Top.query[Top.ci],
                                                         !.renamed = renamed, !.ci = @ + 1])
                   /\ ret' = ret
              ELSE IF renamed.body # <<>>
              THEN \* bindings = unified; extended = prove_all(renamed.body, bindings, db)
                   /\ Len(stack) < MaxStack
                   /\ stack' = Append(SetTop([Top EXCEPT !.clause = Top.query[Top.ci],
                                                         !.renamed = renamed,
                                                         !.bindings = u.r, !.pc = "body"]),
                                      prove_all_frame(renamed.body, u.r))
                   /\ ret' = ret
              ELSE \* bindings = unified; return bindings
                   Return(u.r)
  /\ UNCHANGED <<clauses, fault, out, inp, call, hist, looked>>

\* after prove_all on the body: if not extended: continue, else return it
prove_body_ret ==
  /\ At("prove", "body")
  /\ IF Falsy(heap, ret)
     THEN /\ stack' = SetTop([Top EXCEPT !.ci = @ + 1, !.pc = "loop"])
          /\ ret' = ret
     ELSE Return(ret)
  /\ UNCHANGED <<clauses, counter, nid, heap, fault, out, inp, call, hist, looked>>

\* the for loop is over: return False
prove_exhausted ==
  /\ At("prove", "loop")
  /\ Top.ci > Len(Top.query)
  /\ Return(0)
  /\ UNCHANGED <<clauses, counter, nid, heap, fault, out, inp, call, hist, looked>>

----------------------------------------------------------------------------
(* display_bindings(vars, bindings, goals, db), should_continue(),         *)
(* prolog_prove(goals, db)                                                 *)

RECURSIVE Str(_)
RECURSIVE Join(_, _)

\* str(term): Atom.__str__, Var.__str__, Relation.__str__, str(None)
Str(t) ==
  IF t.k = "None" THEN "None"
  ELSE IF t.k = "Relation" THEN t.name \o "(" \o Join(t.args, 1) \o ")"
  ELSE t.name

\* ', '.join(map(str, ts)) from ts[i] on
Join(ts, i) ==
  IF i > Len(ts) THEN ""
  ELSE IF i = Len(ts) THEN Str(ts[i])
  ELSE Str(ts[i]) \o ", " \o Join(ts, i + 1)

RECURSIVE binding_lines(_, _, _)
\* for var in vars: print var, ':', var.lookup(bindings)
binding_lines(vs, i, b) ==
  IF i > Len(vs) THEN <<>>
  ELSE <<Str(vs[i]) \o " : " \o Str(Var_lookup(vs[i], b))>> \o binding_lines(vs, i + 1, b)

\* answer.strip().lower() on the answers the model's input may hold
strip_lower(answer) ==
  IF answer = " Yes" THEN "yes" ELSE IF answer = "Y" THEN "y" ELSE answer

\* should_continue() when raw_input delivers answer
says_yes(answer) == strip_lower(answer) \in {"yes", "y"}

\* if not vars: print 'Yes';  for var in vars: print ...
display_bindings_print ==
  /\ At("display_bindings", "enter")
  /\ out' = out \o (IF Top.vars = <<>> THEN <<"Yes">> ELSE <<>>)
                \o binding_lines(Top.vars, 1, heap[Top.bindings])
  /\ stack' = SetTop([Top EXCEPT !.pc = "ask"])
  /\ UNCHANGED <<clauses, counter, nid, heap, ret, fault, inp, call, hist, looked>>

\* if should_continue(): return False;  return prove_all(goals, bindings, db)
\* raw_input writes its prompt and reads a line; at the end of the input it
\* raises EOFError, which should_continue's bare except turns into False.
display_bindings_ask ==
  /\ At("display_bindings", "ask")
  /\ out' = Append(out, "Continue? ")
  /\ inp' = IF inp = <<>> THEN inp ELSE Tail(inp)
  /\ IF inp # <<>> /\ says_yes(Head(inp))
     THEN Return(0)
     ELSE /\ Len(stack) < MaxStack
          /\ stack' = Append(SetTop([Top EXCEPT !.pc = "tail"]),
                             prove_all_frame(Top.goals, Top.bindings))
          /\ ret' = ret
  /\ UNCHANGED <<clauses, counter, nid, heap, fault, call, hist, looked>>

\* return prove_all(...) -- its value is returned as it is
display_bindings_ret ==
  /\ At("display_bindings", "tail")
  /\ Return(ret)
  /\ UNCHANGED <<clauses, counter, nid, heap, fault, out, inp, call, hist, looked>>

\* if goals: define the primitive, collect the goals' variables and call
\* prove_all(goals + [Relation('display_bindings', vars)], {}, db)
prolog_prove_start ==
  /\ At("prolog_prove", "start")
  /\ IF Top.goals # <<>>
     THEN LET vs == get_vars_from(Top.goals, 1)
              g == Relation("display_bindings", vs, nid)
          IN  /\ clauses' = Database_define_primitive(clauses, "display_bindings",
                                                      "display_bindings")
              /\ nid' = nid + 1
              /\ heap' = Append(heap, EmptyDict)
              /\ stack' = Append(SetTop([Top EXCEPT !.pc = "print"]),
                                 prove_all_frame(Append(Top.goals, g), Len(heap) + 1))
     ELSE /\ stack' = SetTop([Top EXCEPT !.pc = "print"])
          /\ UNCHANGED <<clauses, nid, heap>>
  /\ UNCHANGED <<counter, ret, fault, out, inp, call, hist, looked>>

\* print 'No.' -- prolog_prove returns nothing; ret keeps what prove_all returned
prolog_prove_print ==
  /\ At("prolog_prove", "print")
  /\ out' = Append(out, "No.")
  /\ stack' = Popped
  /\ UNCHANGED <<clauses, counter, nid, heap, ret, fault, inp, call, hist, looked>>

----------------------------------------------------------------------------
(* Var.lookup and unify as calls of their own *)

\* binding = bindings.get(self); encountered = [self, binding]
lookup_enter ==
  /\ At("lookup", "enter")
  /\ LET binding == Get(heap[Top.bindings], Top.goal)
     IN  stack' = SetTop([Top EXCEPT !.binding = binding,
                                     !.encountered = <<Top.goal, binding>>,
                                     !.pc = "while"])
  /\ UNCHANGED <<clauses, counter, nid, heap, ret, fault, out, inp, call, hist, looked>>

\* one pass of the while loop
lookup_iterate ==
  /\ At("lookup", "while")
  /\ lookup_cond(Top.binding, Top.encountered, heap[Top.bindings])
  /\ LET binding == Get(heap[Top.bindings], Top.binding)
     IN  stack' = SetTop([Top EXCEPT !.binding = binding,
                                     !.encountered = Append(@, binding)])
  /\ UNCHANGED <<clauses, counter, nid, heap, ret, fault, out, inp, call, hist, looked>>

\* return binding
lookup_return ==
  /\ At("lookup", "while")
  /\ ~lookup_cond(Top.binding, Top.encountered, heap[Top.bindings])
  /\ looked' = Top.binding
  /\ stack' = Popped
  /\ UNCHANGED <<clauses, counter, nid, heap, ret, fault, out, inp, call, hist>>

\* self.unify(other, bindings)
unify_call ==
  /\ At("unify", "enter")
  /\ LET u == unify(Top.goal, Top.other, Top.bindings, heap)
     IN  heap' = u.h /\ Return(u.r)
  /\ UNCHANGED <<clauses, counter, nid, fault, out, inp, call, hist, looked>>

----------------------------------------------------------------------------
(* The programs and calls the prover is run on.  An id of 0 is given to    *)
(* the objects the program's clauses are built from; a goal is built       *)
(* either from those same objects (m = 0) or from objects constructed      *)
(* separately for it (m = 1), as in Relation('parent', [Atom('tom'), ...]).*)

RECURSIVE WithId(_, _)
RECURSIVE WithIds(_, _, _)

\* The term t built from objects with id m.
WithId(t, m) == [t EXCEPT !.id = m, !.args = WithIds(t.args, 1, m)]

WithIds(ts, i, m) ==
  IF i > Len(ts) THEN <<>> ELSE <<WithId(ts[i], m)>> \o WithIds(ts, i + 1, m)

A(n) == Atom(n, 0)

V(n) == Var(n, 0)

R(p, as) == Relation(p, as, 0)

Fact(r) == Clause(r, <<>>)

Rule(h, b) == Clause(h, b)

\* parent(tom, bob).  parent(bob, ann).
\* grandparent(X, Z) :- parent(X, Y), parent(Y, Z).
Family ==
  [facts |-> <<Fact(R("parent", <<A("tom"), A("bob")>>)),
               Fact(R("parent", <<A("bob"), A("ann")>>))>>,
   rules |-> <<Rule(R("grandparent", <<V("X"), V("Z")>>),
                    <<R("parent", <<V("X"), V("Y")>>), R("parent", <<V("Y"), V("Z")>>)>>)>>,
   prims |-> <<>>,
   goals |-> {R("grandparent", <<A("tom"), A("ann")>>), R("grandparent", <<A("ann"), A("tom")>>),
              R("parent", <<A("tom"), A("bob")>>), R("parent", <<A("tom"), V("X")>>),
              R("grandparent", <<A("tom"), V("X")>>), R("sibling", <<A("tom"), V("X")>>)},
   lists |-> {<<R("parent", <<A("tom"), V("X")>>), R("parent", <<V("X"), V("Z")>>)>>,
              <<R("parent", <<A("ann"), V("X")>>), R("parent", <<A("tom"), V("Z")>>)>>},
   atom  |-> "bob"]

\* r(b).   p(a) :- q(a).   p(b) :- r(b).      (no clause for q)
Choice ==
  [facts |-> <<Fact(R("r", <<A("b")>>))>>,
   rules |-> <<Rule(R("p", <<A("a")>>), <<R("q", <<A("a")>>)>>),
               Rule(R("p", <<A("b")>>), <<R("r", <<A("b")>>)>>)>>,
   prims |-> <<>>,
   goals |-> {R("p", <<V("X")>>), R("p", <<A("a")>>), R("p", <<A("b")>>)},
   lists |-> {<<R("r", <<V("X")>>), R("p", <<V("X")>>)>>},
   atom  |-> "b"]

\* p(a).  p(X).  p(b).
Order ==
  [facts |-> <<Fact(R("p", <<A("a")>>)), Fact(R("p", <<V("X")>>)), Fact(R("p", <<A("b")>>))>>,
   rules |-> <<>>,
   prims |-> <<>>,
   goals |-> {R("p", <<V("X")>>), R("p", <<A("a")>>), R("p", <<A("b")>>), R("p", <<A("c")>>)},
   lists |-> {<<R("p", <<V("X")>>), R("p", <<V("Y")>>)>>},
   atom  |-> "b"]

\* q(a).   s(X) :- q(X).   t(X) :- w(X).   w(X) :- q(X).
\* In the rule for w the two occurrences of X are two Var('X') objects; in
\* the other rules they are one object.
Renaming ==
  [facts |-> <<Fact(R("q", <<A("a")>>))>>,
   rules |-> <<Rule(R("s", <<V("X")>>), <<R("q", <<V("X")>>)>>),
               Rule(R("t", <<V("X")>>), <<R("w", <<V("X")>>)>>),
               Rule(R("w", <<Var("X", 1)>>), <<R("q", <<Var("X", 2)>>)>>)>>,
   prims |-> <<>>,
   goals |-> {R("s", <<A("a")>>), R("s", <<A("b")>>), R("s", <<V("Y")>>), R("s", <<V("var0")>>),
              R("t", <<A("a")>>), R("t", <<A("b")>>), R("t", <<V("Y")>>)},
   lists |-> {<<R("s", <<V("Y")>>), R("s", <<V("var0")>>)>>},
   atom  |-> "a"]

\* q(a).  and the host primitives  always = prim_true,  never = prim_false
Host ==
  [facts |-> <<Fact(R("q", <<A("a")>>))>>,
   rules |-> <<>>,
   prims |-> <<<<"always", "prim_true">>, <<"never", "prim_false">>>>,
   goals |-> {R("always", <<A("a")>>), R("never", <<V("X")>>), R("q", <<V("X")>>)},
   lists |-> {<<R("q", <<V("X")>>), R("always", <<V("X")>>)>>,
              <<R("q", <<V("X")>>), R("never", <<V("X")>>)>>},
   atom  |-> "a"]

Programs == <<Family, Choice, Order, Renaming, Host>>

RECURSIVE define_all(_, _, _)
define_all(d, ps, i) ==
  IF i > Len(ps) THEN d
  ELSE define_all(Database_define_primitive(d, ps[i][1], ps[i][2]), ps, i + 1)

\* The Database of program p: Database(facts, rules), then its define_primitive calls.
DatabaseOf(p) == define_all(Database_init(p.facts, p.rules), p.prims, 1)

\* The environments a call starts from: empty, one binding of a variable no
\* goal mentions, and X bound to an atom of the program.
Envs(p, m) ==
  {EmptyDict, (V("W") :> A("c")), (Var("X", m) :> A(p.atom))}

\* What the input holds when a run starts.
Inputs == {<<>>, <<"no">>, <<"y">>, <<" Yes", "Y", "yes">>}

NoCall ==
  [fn |-> "", prog |-> 0, goals |-> <<>>, env |-> EmptyDict, m |-> 0, vars |-> <<>>,
   inp |-> <<>>]

\* The goal lists of program p, built from objects with id m.
GoalLists(p, m) ==
  {<<>>} \cup {<<WithId(g, m)>> : g \in p.goals} \cup {WithIds(gs, 1, m) : gs \in p.lists}

\* The calls of prove, prove_all, prolog_prove and display_bindings on program i.
CallsOf(i, m) ==
  LET p == Programs[i]
      c == [NoCall EXCEPT !.prog = i, !.m = m]
  IN  {[c EXCEPT !.fn = "prove", !.goals = <<WithId(g, m)>>, !.env = e] :
         g \in p.goals, e \in Envs(p, m)}
      \cup
      {[c EXCEPT !.fn = "prove_all", !.goals = gs, !.env = e] :
         gs \in GoalLists(p, m), e \in Envs(p, m)}
      \cup
      {[c EXCEPT !.fn = "prolog_prove", !.goals = gs, !.inp = in] :
         gs \in GoalLists(p, m), in \in Inputs}
      \cup
      {[c EXCEPT !.fn = "display_bindings", !.vars = vs, !.goals = gs, !.env = e, !.inp = in] :
         vs \in {<<>>, <<Var("X", m)>>, <<Var("X", m), V("W")>>},
         gs \in {<<>>} \cup {WithIds(l, 1, m) : l \in p.lists},
         e \in Envs(p, m), in \in Inputs}

Calls == UNION {CallsOf(i, m) : i \in 1..Len(Programs), m \in {0, 1}}

\* The frame of the call c, whose bindings argument is the dict heap[1].
FirstFrame(c) ==
  IF c.fn = "prove" THEN prove_frame(c.goals[1], 1)
  ELSE IF c.fn = "prove_all" THEN prove_all_frame(c.goals, 1)
  ELSE IF c.fn = "prolog_prove"
  THEN [Frame0 EXCEPT !.fn = "prolog_prove", !.pc = "start", !.goals = c.goals]
  ELSE [Frame0 EXCEPT !.fn = "display_bindings", !.pc = "enter", !.vars = c.vars,
                      !.goals = c.goals, !.b0 = 1, !.bindings = 1]

\* A fresh interpreter (Var.counter = 0), the Database of one program, and
\* one call about to run.
Init ==
  \E c \in Calls :
    /\ call = c
    /\ clauses = DatabaseOf(Programs[c.prog])
    /\ counter = 0
    /\ nid = 10
    /\ heap = IF c.fn = "prolog_prove" THEN <<>> ELSE <<c.env>>
    /\ stack = <<FirstFrame(c)>>
    /\ ret = 0
    /\ fault = ""
    /\ out = <<>>
    /\ inp = c.inp
    /\ hist = <<>>
    /\ looked = None

Next ==
  \/ prove_all_enter
  \/ prove_all_call
  \/ prove_all_ret
  \/ prove_all_done
  \/ prove_no_clauses
  \/ prove_primitive
  \/ prove_clauses
  \/ prove_candidate
  \/ prove_body_ret
  \/ prove_exhausted
  \/ display_bindings_print
  \/ display_bindings_ask
  \/ display_bindings_ret
  \/ prolog_prove_start
  \/ prolog_prove_print

Spec == Init /\ [][Next]_vars

----------------------------------------------------------------------------
(* unify and Var.lookup called on their own: every pair of terms of a      *)
(* small universe, under every environment of a small universe.  The       *)
(* universe holds equal terms that are different objects (ids 0 and 1).    *)

UnifyTerms ==
  {A("a"), Atom("a", 1), A("b"), V("X"), V("Y"), Var("X", 1),
   R("f", <<A("a")>>), Relation("f", <<A("a")>>, 1), R("f", <<V("X")>>), R("g", <<A("a")>>),
   R("f", <<V("X"), V("Y")>>), R("f", <<V("Y"), A("a")>>), R("f", <<A("b"), V("X")>>),
   R("f", <<A("a"), A("b")>>)}

UnifyValues == {A("a"), Atom("a", 1), A("b"), V("X"), V("Y"), V("Z"), R("f", <<A("a")>>)}

\* Every dict whose keys are among the given Var objects.
DictsOver(keys, values) == UNION {[S -> values] : S \in SUBSET keys}

UnifyEnvs == DictsOver({V("X"), V("Y")}, UnifyValues)

UnifyCalls ==
  {[NoCall EXCEPT !.fn = "unify", !.goals = <<a, b>>, !.env = e] :
     a \in UnifyTerms, b \in UnifyTerms, e \in UnifyEnvs}

\* The longest chain or cycle of variables a lookup is run on.
MaxChain == 3

VarNames == <<"X", "Y", "Z", "U", "T", "S">>

LookupVars == {V(VarNames[i]) : i \in 1..MaxChain}

\* A variable may be bound to a variable, to an atom, or to a relation that
\* holds the first variable (a self-referential binding when it is X's).
LookupEnvs == DictsOver(LookupVars, LookupVars \cup {A("a"), R("f", <<V("X")>>)})

LookupCalls ==
  {[NoCall EXCEPT !.fn = "lookup", !.goals = <<v>>, !.env = e] :
     v \in LookupVars \cup {Var("X", 1)}, e \in LookupEnvs}

\* A call c that needs no Database.
InitCall(c) ==
  /\ call = c
  /\ clauses = [x \in {} |-> ClauseList(<<>>)]
  /\ counter = 0
  /\ nid = 10
  /\ heap = <<c.env>>
  /\ stack = <<[Frame0 EXCEPT !.fn = c.fn, !.pc = "enter", !.goal = c.goals[1],
                              !.other = IF Len(c.goals) > 1 THEN c.goals[2] ELSE None,
                              !.b0 = 1, !.bindings = 1]>>
  /\ ret = 0
  /\ fault = ""
  /\ out = <<>>
  /\ inp = <<>>
  /\ hist = <<>>
  /\ looked = None

InitUnify == \E c \in UnifyCalls : InitCall(c)

NextUnify == unify_call

SpecUnify == InitUnify /\ [][NextUnify]_vars

InitLookup == \E c \in LookupCalls : InitCall(c)

NextLookup ==
  \/ lookup_enter
  \/ lookup_iterate
  \/ lookup_return

SpecLookup == InitLookup /\ [][NextLookup]_vars

\* The calls of unify together with the calls of the prover.
InitAll == Init \/ InitUnify

NextAll == Next \/ NextUnify

SpecAll == InitAll /\ [][NextAll]_vars

----------------------------------------------------------------------------
(* The Database on its own: Database() followed by store, define_primitive *)
(* and query calls.  hist lists the store and define_primitive calls made; *)
(* fault is the exception the last call raised.                            *)

\* How many store / define_primitive calls a run makes.
MaxOps == 4

DbClauses ==
  {Fact(R("p", <<A("a")>>)), Fact(R("p", <<A("b")>>)), Fact(R("q", <<A("a")>>))}

DbNames == {"p", "q", "r"}

\* The log entry of a store call; raised is the exception it ended with.
StoreOp(c, raised) ==
  [op |-> "store", name |-> c.head.name, clause |-> c, fn |-> "", raised |-> raised]

DefineOp(name, fn) ==
  [op |-> "define_primitive", name |-> name, clause |-> NoClause, fn |-> fn, raised |-> ""]

\* db.store(c)
Store(c) ==
  /\ stack = <<>>
  /\ Len(hist) < MaxOps
  /\ IF store_raises(clauses, c)
     THEN fault' = "AttributeError" /\ clauses' = clauses
     ELSE fault' = "" /\ clauses' = Database_store(clauses, c)
  /\ hist' = Append(hist, StoreOp(c, fault'))
  /\ UNCHANGED <<counter, nid, heap, stack, ret, out, inp, call, looked>>

\* db.define_primitive(name, fn)
DefinePrimitive(name, fn) ==
  /\ stack = <<>>
  /\ Len(hist) < MaxOps
  /\ hist' = Append(hist, DefineOp(name, fn))
  /\ fault' = ""
  /\ clauses' = Database_define_primitive(clauses, name, fn)
  /\ UNCHANGED <<counter, nid, heap, stack, ret, out, inp, call, looked>>

\* db.query(pred)
Query(pred) ==
  /\ stack = <<>>
  /\ fault' = ""
  /\ clauses' = Database_query(clauses, pred).clauses
  /\ UNCHANGED <<counter, nid, heap, stack, ret, out, inp, call, hist, looked>>

\* db = Database()
InitDb ==
  /\ call = [NoCall EXCEPT !.fn = "Database"]
  /\ clauses = Database_init(<<>>, <<>>)
  /\ counter = 0
  /\ nid = 10
  /\ heap = <<>>
  /\ stack = <<>>
  /\ ret = 0
  /\ fault = ""
  /\ out = <<>>
  /\ inp = <<>>
  /\ hist = <<>>
  /\ looked = None

NextDb ==
  \/ \E c \in DbClauses : Store(c)
  \/ \E name \in {"p", "q"}, fn \in {"prim_true", "prim_false"} : DefinePrimitive(name, fn)
  \/ \E pred \in DbNames : Query(pred)

SpecDb == InitDb /\ [][NextDb]_vars

----------------------------------------------------------------------------
(* Properties of the prover (specification Spec) *)

\* The run is over: every frame has returned, or an exception has left them all.
Terminated == stack = <<>>

\* The Var names occurring in a term.
NamesOf(t) == {get_vars(t)[i].name : i \in 1..Len(get_vars(t))}

\* The Var names occurring in a clause.
ClauseNames(c) == NamesOf(c.head) \cup UNION {NamesOf(c.body[i]) : i \in 1..Len(c.body)}

\* The Var names occurring in a dict of bindings, as keys or in values.
EnvNames(d) == {v.name : v \in DOMAIN d} \cup UNION {NamesOf(d[v]) : v \in DOMAIN d}

\* The clauses stored under the goal's predicate when the call c starts.
CandidatesOf(c) ==
  LET d == DatabaseOf(Programs[c.prog])
      pred == c.goals[1].name
  IN  IF pred \in DOMAIN d THEN d[pred].list ELSE <<>>

\* unify(goal, head of the fact cl, env) on a heap of its own: [h, r].
UnifyFact(goal, cl, env) == unify(goal, cl.head, 1, <<env>>)

IsGround(t) == get_vars(t) = <<>>

\* The candidates of the call's first goal that are facts without variables
\* and whose head unifies with the goal from the call's environment.
GroundSolutions(c) ==
  {i \in 1..Len(CandidatesOf(c)) :
     /\ CandidatesOf(c)[i].body = <<>>
     /\ IsGround(CandidatesOf(c)[i].head)
     /\ UnifyFact(c.goals[1], CandidatesOf(c)[i], c.env).r # 0}

\* The lines display_bindings prints for the goal's variables under solution i.
SolutionLines(c, i) ==
  LET u == UnifyFact(c.goals[1], CandidatesOf(c)[i], c.env)
  IN  binding_lines(get_vars(c.goals[1]), 1, u.h[u.r])

\* The lines were printed, one after the other.
Printed(lines) ==
  \E k \in 0..Len(out) : k + Len(lines) <= Len(out) /\ SubSeq(out, k + 1, k + Len(lines)) = lines

\* C1: in prove, each candidate clause is unified against the goal starting
\* from the environment that was passed to prove: whenever prove is about to
\* try a candidate (or to give up), its bindings are those it was called with,
\* also after a candidate whose head unified and whose body failed.
C1_CandidatesStartFromPassedEnv ==
  \A i \in 1..Len(stack) :
    (stack[i].fn = "prove" /\ stack[i].pc = "loop")
      => heap[stack[i].bindings] = heap[stack[i].b0]

\* C2: failure is distinct from the empty environment: prove(goal, {}) and
\* prove_all([goal], {}) of a goal without variables that equals a stored fact
\* succeed and return the empty environment.
C2_GroundFactGoalSucceeds ==
  ( /\ Terminated
    /\ call.fn \in {"prove", "prove_all"}
    /\ Len(call.goals) = 1
    /\ call.env = EmptyDict
    /\ IsGround(call.goals[1])
    /\ \E i \in 1..Len(CandidatesOf(call)) :
         CandidatesOf(call)[i].body = <<>> /\ Eq(CandidatesOf(call)[i].head, call.goals[1]) )
  => (ret # 0 /\ heap[ret] = EmptyDict)

\* C3: when every answer to "Continue?" is yes, the reporting goal fails each
\* time and the prover backtracks, so that when prolog_prove ends every
\* solution of the goal list has been reported and "No." was printed last.
C3_YesReportsEverySolution ==
  ( /\ Terminated
    /\ call.fn = "prolog_prove"
    /\ Len(call.goals) = 1
    /\ GroundSolutions(call) # {}
    /\ Len(call.inp) >= Cardinality(GroundSolutions(call))
    /\ \A i \in 1..Len(call.inp) : says_yes(call.inp[i]) )
  => /\ fault = ""
     /\ out # <<>> /\ out[Len(out)] = "No."
     /\ \A i \in GroundSolutions(call) : Printed(SolutionLines(call, i))

\* C4: the reporting primitive prolog_prove registers can be called the way
\* prove calls a primitive: reaching the reporting goal raises no exception,
\* and when the first candidate is a solution and continuing is declined (or
\* there is no input) the solution is reported and the proof succeeds.
C4_ReportingGoalCallable ==
  call.fn = "prolog_prove" =>
    /\ fault = ""
    /\ ( /\ Terminated
         /\ Len(call.goals) = 1
         /\ 1 \in GroundSolutions(call)
         /\ ~IsGround(call.goals[1])
         /\ (call.inp = <<>> \/ ~says_yes(Head(call.inp))) )
       => (ret # 0 /\ Printed(SolutionLines(call, 1)))

\* The fact cl as prove renames it when it is the first candidate tried.
FirstRenamed(cl) ==
  recursive_rename(cl, CHOOSE o \in Orders(Clause_get_vars(cl)) : TRUE, 0, 10).c

\* cl is a fact with at most one variable whose head unifies with the call's goal.
FactUnifies(c, cl) ==
  /\ cl.body = <<>>
  /\ Cardinality(Clause_get_vars(cl)) <= 1
  /\ UnifyFact(c.goals[1], FirstRenamed(cl), c.env).r # 0

\* C5: candidates are tried in storage order and the first success wins: when
\* the first stored clause is a fact whose head unifies with the goal, and a
\* later fact's head unifies too, prove never tries a second candidate and
\* returns the environment of the unification with the first.
C5_FirstSuccessWins ==
  ( /\ call.fn = "prove"
    /\ Len(CandidatesOf(call)) > 1
    /\ FactUnifies(call, CandidatesOf(call)[1])
    /\ \E j \in 2..Len(CandidatesOf(call)) : FactUnifies(call, CandidatesOf(call)[j]) )
  => /\ (Running => stack[1].ci <= 1)
     /\ Terminated =>
          LET u == UnifyFact(call.goals[1], FirstRenamed(CandidatesOf(call)[1]), call.env)
          IN  ret # 0 /\ heap[ret] = u.h[u.r]

\* C6: with parent(tom, bob), parent(bob, ann) and
\* grandparent(X,Z) :- parent(X,Y), parent(Y,Z), proving grandparent(tom, ann)
\* from the empty environment succeeds and proving grandparent(ann, tom) fails.
C6_Grandparent ==
  (Terminated /\ call.fn = "prove" /\ Programs[call.prog] = Family /\ call.env = EmptyDict)
  => /\ Eq(call.goals[1], R("grandparent", <<A("tom"), A("ann")>>)) => ret # 0
     /\ Eq(call.goals[1], R("grandparent", <<A("ann"), A("tom")>>)) => ret = 0

\* The Var objects of a clause in the order they occur, repetitions kept.
Occurrences(c) == get_vars(c.head) \o get_vars_from(c.body, 1)

\* C9: a candidate is renamed before it is unified: every source variable is
\* replaced by one fresh variable at all its occurrences, and the variables
\* of the renamed clause are none of the goal's, none of the environment's
\* that prove was called with, and none of another live clause instance's.
C9_RenamedApart ==
  \A i \in 1..Len(stack) :
    (stack[i].fn = "prove" /\ stack[i].renamed # NoClause) =>
      LET src == Occurrences(stack[i].clause)
          new == Occurrences(stack[i].renamed)
          names == ClauseNames(stack[i].renamed)
      IN  /\ \A j, k \in 1..Len(src) : src[j].name = src[k].name => new[j].name = new[k].name
          /\ names \cap NamesOf(stack[i].goal) = {}
          /\ names \cap EnvNames(heap[stack[i].b0]) = {}
          /\ \A j \in 1..Len(stack) :
               (j # i /\ stack[j].fn = "prove") => names \cap ClauseNames(stack[j].renamed) = {}

----------------------------------------------------------------------------
(* Properties of Var.lookup (specification SpecLookup) *)

\* C7: lookup terminates for every environment, cyclic ones included: the
\* while loop makes at most as many passes as the environment has bindings
\* (encountered starts with two entries and grows by one per pass); and for
\* a mutual binding of two variables the lookup of one returns the other, a
\* single hop, or None.
C7_LookupTerminates ==
  /\ \A i \in 1..Len(stack) :
       stack[i].fn = "lookup" =>
         Len(stack[i].encountered) <= Cardinality(DOMAIN heap[stack[i].bindings]) + 2
  /\ \A v \in DOMAIN call.env :
       ( /\ Terminated
         /\ call.goals[1] = v
         /\ call.env[v] # v
         /\ call.env[v] \in DOMAIN call.env
         /\ call.env[call.env[v]] = v )
       => looked \in {None, call.env[v]}

\* A lookup has returned from a cycle through all the variables: X -> Y -> ... -> X.
C7_Witness ==
  /\ Terminated
  /\ call.fn = "lookup"
  /\ call.goals[1] = V("X")
  /\ DOMAIN call.env = LookupVars
  /\ \A i \in 1..MaxChain : call.env[V(VarNames[i])] = V(VarNames[(i % MaxChain) + 1])
  /\ looked = V(VarNames[MaxChain])

----------------------------------------------------------------------------
(* Properties of unify, prove and prove_all together (specification SpecAll) *)

----------------------------------------------------------------------------
(* Properties of the Database (specification SpecDb) *)

RECURSIVE Stored(_, _, _)
\* What the operations ops[1..n] leave under name when every store appends
\* to the clauses stored since the last define_primitive: the entry, or
\* an empty list when nothing was done under the name.
Stored(ops, n, name) ==
  IF n = 0 THEN ClauseList(<<>>)
  ELSE LET before == Stored(ops, n - 1, name)
           o == ops[n]
       IN  IF o.name # name THEN before
           ELSE IF o.op = "define_primitive" THEN Primitive(o.fn)
           ELSE ClauseList(Append(before.list, o.clause))

RECURSIVE StoredUnlessPrimitive(_, _, _)
\* The same, when a store under a name that holds a primitive changes nothing.
StoredUnlessPrimitive(ops, n, name) ==
  IF n = 0 THEN ClauseList(<<>>)
  ELSE LET before == StoredUnlessPrimitive(ops, n - 1, name)
           o == ops[n]
       IN  IF o.name # name THEN before
           ELSE IF o.op = "define_primitive" THEN Primitive(o.fn)
           ELSE IF before.prim # "" THEN before
           ELSE ClauseList(Append(before.list, o.clause))

\* C10 as claimed: after any sequence of store and define_primitive calls,
\* query(name) returns the primitive registered last when define_primitive
\* was the last operation on the name, and otherwise exactly the clauses
\* stored under it since then, in the order they were stored.
C10_QueryReturnsWhatWasStored ==
  \A name \in DbNames :
    Database_query(clauses, name).entry = Stored(hist, Len(hist), name)

\* C10 amended: query(name) returns the primitive registered last under the
\* name if one was ever registered (a later store under the name raises
\* AttributeError and changes nothing), and otherwise exactly the clauses
\* stored under it, in the order they were stored; no name holds clauses and
\* a primitive at once.
C10_QueryReturnsWhatWasStoredUnlessPrimitive ==
  \A name \in DbNames :
    LET e == Database_query(clauses, name).entry
    IN  /\ e = StoredUnlessPrimitive(hist, Len(hist), name)
        /\ e.prim # "" => e.list = <<>>
        /\ \A i \in 1..Len(hist) :
             hist[i].raised = IF /\ hist[i].op = "store"
                                /\ StoredUnlessPrimitive(hist, i - 1, hist[i].name).prim # ""
                             THEN "AttributeError" ELSE ""

\* Two clauses were stored under p, in the order b, a, and under q a
\* primitive has replaced a clause.
C10_Witness ==
  /\ "p" \in DOMAIN clauses /\ "q" \in DOMAIN clauses
  /\ clauses["p"].list = <<Fact(R("p", <<A("b")>>)), Fact(R("p", <<A("a")>>))>>
  /\ clauses["q"].prim = "prim_true"
  /\ \E i \in 1..Len(hist) : hist[i].op = "store" /\ hist[i].name = "q"

----------------------------------------------------------------------------
(* Undefined predicates (specification Spec) *)

\* The predicate names the goals and clauses of the programs use.
PredNames ==
  {"parent", "grandparent", "sibling", "p", "q", "r", "s", "t", "w", "always", "never",
   "display_bindings"}

\* C11: query on a predicate that was never stored or registered returns an
\* empty list of clauses, and prove on a goal with such a predicate returns
\* False without raising: it never enters its for loop, and when it is the
\* call of the run, the run ends with False and no exception.
C11_UndefinedPredicateFails ==
  /\ \A name \in PredNames :
       name \notin DOMAIN clauses => Database_query(clauses, name).entry = ClauseList(<<>>)
  /\ \A i \in 1..Len(stack) :
       (stack[i].fn = "prove" /\ stack[i].pc # "enter")
         => stack[i].goal.name \in DOMAIN DatabaseOf(Programs[call.prog])
  /\ ( /\ Terminated
       /\ call.fn = "prove"
       /\ call.goals[1].name \notin DOMAIN DatabaseOf(Programs[call.prog]) )
     => (ret = 0 /\ fault = "")

\* prove has returned False for the goal sibling(tom, X), for which the
\* program has no clause and no primitive.
C11_Witness ==
  /\ Terminated
  /\ call.fn = "prove"
  /\ call.goals[1].name = "sibling"
  /\ "sibling" \notin DOMAIN DatabaseOf(Programs[call.prog])
  /\ ret = 0
  /\ fault = ""

----------------------------------------------------------------------------
(* Chains of bindings (specification SpecLookup) *)

RECURSIVE ChainEnd(_, _, _)
\* The term reached from v by following at most n bindings of env.
ChainEnd(v, env, n) ==
  IF n = 0 \/ v.k # "Var" \/ v \notin DOMAIN env THEN v
  ELSE ChainEnd(env[v], env, n - 1)

----------------------------------------------------------------------------
(* Variables bound to variables (specification SpecUnify) *)

\* The environment unify(X, Y, {}) returns for two unbound variables.
Mutual == (V("X") :> V("Y")) @@ (V("Y") :> V("X"))

\* C13: a variable whose bindings lead only to variables counts as
\* unresolved: unify(X, Y, {}) gives the mutual binding; unifying X or Y with
\* the atom a under the mutual binding succeeds, and in the result both X and
\* Y look up to a; and unify(f(X, Y), f(Y, a), {}) succeeds.
C13_VarBoundToVarIsUnresolved ==
  (Terminated /\ call.fn = "unify") =>
    /\ (call.env = EmptyDict /\ call.goals = <<V("X"), V("Y")>>)
         => (ret # 0 /\ heap[ret] = Mutual)
    /\ (call.env = Mutual /\ call.goals \in {<<V("X"), A("a")>>, <<V("Y"), A("a")>>})
         => /\ ret # 0
            /\ Var_lookup(V("X"), heap[ret]) = A("a")
            /\ Var_lookup(V("Y"), heap[ret]) = A("a")
    /\ (call.env = EmptyDict
        /\ call.goals = <<R("f", <<V("X"), V("Y")>>), R("f", <<V("Y"), A("a")>>)>>)
         => ret # 0


\* The variable v looks up to an atom or a relation in env.
Resolves(v, env) == Var_lookup(v, env).k \in {"Atom", "Relation"}

\* C14: when unify is applied to two distinct variables of which exactly one
\* resolves to an atom or a relation, it succeeds, and the environment it
\* returns binds the other variable to that value itself, not to the
\* variable that resolves.
C14_UnresolvedBoundToValue ==
  \A self, other \in {V("X"), V("Y")} :
    ( /\ Terminated
      /\ call.fn = "unify"
      /\ call.goals \in {<<self, other>>, <<other, self>>}
      /\ Resolves(self, call.env)
      /\ ~Resolves(other, call.env) )
    => /\ ret # 0
       /\ other \in DOMAIN heap[ret]
       /\ heap[ret][other] = Var_lookup(self, call.env)


RECURSIVE AfterPairs(_, _, _, _)
\* Where unifying the first k argument pairs of the relations a and b one
\* after the other leads from a copy of the dict h[1]: each pair starts from
\* the environment of the pair before, and nothing is done once a pair has
\* failed.
AfterPairs(a, b, k, h) ==
  IF k = 0 THEN Dict(h, 1)
  ELSE LET before == AfterPairs(a, b, k - 1, h)
       IN  IF before.r = 0 THEN before
           ELSE unify(a.args[k], b.args[k], before.r, before.h)

\* C15: unify on two relations fails on a mismatch of the predicates or of
\* the numbers of arguments before it has made its copy of the
\* environment, so without looking at an argument; otherwise it unifies the
\* argument pairs from left to right, each from the environment the pair
\* before returned, and returns False at the first pair that fails, having
\* done nothing for the pairs after it.
C15_RelationsUnifyPairwise ==
  ( /\ Terminated
    /\ call.fn = "unify"
    /\ call.goals[1].k = "Relation"
    /\ call.goals[2].k = "Relation" )
  => LET a == call.goals[1]
         b == call.goals[2]
         all == AfterPairs(a, b, Len(a.args), <<call.env>>)
     IN  IF a.name # b.name \/ Len(a.args) # Len(b.args)
         THEN ret = 0 /\ heap = <<call.env>>
         ELSE /\ ret = all.r
              /\ heap = all.h
              /\ (ret = 0) <=> (\E k \in 1..Len(a.args) : AfterPairs(a, b, k, <<call.env>>).r = 0)

\* f(X, Y) and f(b, X) were unified from the empty environment: the second
\* pair found X bound by the first.
C15_Witness ==
  /\ Terminated
  /\ call.fn = "unify"
  /\ call.env = EmptyDict
  /\ call.goals = <<R("f", <<V("X"), V("Y")>>), R("f", <<A("b"), V("X")>>)>>
  /\ ret # 0
  /\ heap[ret] = (V("X") :> A("b")) @@ (V("Y") :> V("X"))

----------------------------------------------------------------------------
(* The order of the goals in prove_all (specification Spec) *)

\* C16: prove_all proves its goals from left to right, each from the
\* environment the goal before returned: a step of its loop either calls
\* prove on goal i with the loop's bindings or, past the last goal, returns
\* the bindings; when prove has returned False it returns False at once, and
\* when prove has returned an environment it goes on to goal i + 1 with that
\* environment.  So prove_all([], env) returns env.
C16_ProveAllLeftToRight ==
  [][ /\ (At("prove_all", "loop") /\ Top.i <= Len(Top.goals))
           => /\ Len(stack') = Len(stack) + 1
              /\ stack'[Len(stack')].fn = "prove"
              /\ stack'[Len(stack')].goal = Top.goals[Top.i]
              /\ stack'[Len(stack')].b0 = Top.bindings
      /\ (At("prove_all", "loop") /\ Top.i > Len(Top.goals))
           => (stack' = Popped /\ ret' = Top.bindings)
      /\ (At("prove_all", "ret") /\ ret = 0)
           => (stack' = Popped /\ ret' = 0)
      /\ (At("prove_all", "ret") /\ ret # 0)
           => /\ Len(stack') = Len(stack)
              /\ stack'[Len(stack')].pc = "loop"
              /\ stack'[Len(stack')].i = Top.i + 1
              /\ stack'[Len(stack')].bindings = ret
      /\ (call.fn = "prove_all" /\ call.goals = <<>> /\ stack' = <<>>)
           => (ret' # 0 /\ heap'[ret'] = call.env) ]_vars

----------------------------------------------------------------------------
(* Symmetry of unify (specification SpecUnify) *)

\* C17: unify is symmetric in its two terms: for all terms a and b and every
\* environment, unify(a, b, env) and unify(b, a, env) both fail, or both
\* succeed with equal environments.
C17_UnifySymmetric ==
  (Terminated /\ call.fn = "unify") =>
    LET swapped == unify(call.goals[2], call.goals[1], 1, <<call.env>>)
    IN  /\ (ret = 0) <=> (swapped.r = 0)
        /\ ret # 0 => heap[ret] = swapped.h[swapped.r]

\* unify(Y, X, {X: a}) has bound the unbound Y, the receiver of the call, to X.
C17_Witness ==
  /\ Terminated
  /\ call.fn = "unify"
  /\ call.goals = <<V("Y"), V("X")>>
  /\ call.env = (V("X") :> A("a"))
  /\ ret # 0
  /\ heap[ret] = (V("X") :> A("a")) @@ (V("Y") :> V("X"))

----------------------------------------------------------------------------
(* What query leaves behind (specification SpecDb) *)

\* C18: query is read-only: for every predicate name, stored or not, a call
\* of query leaves the Database's dict from names to clause lists and
\* primitives exactly as it was, and adds no key.
C18_QueryReadOnly ==
  [][ (\E pred \in DbNames : Query(pred)) => clauses' = clauses ]_vars

============================================================================
